---- MODULE Spec2Model ----
(***************************************************************************)
(* Lifecycle of an AWS ExternalService                                     *)
(* (src/cloud_provider/aws/external_service.rs): the Create, Pause and     *)
(* Delete hooks, the tera context builder and the helm release name.       *)
(* Strings are sequences of one-character strings, so that slicing         *)
(* (&commit_id[..7]) and truncation (cut(.., 50)) are computed.            *)
(***************************************************************************)
EXTENDS Integers, Sequences, FiniteSets, TLC

\* ------------------------------------------------------------------ bounds
\* longest name / id made of free characters in the release-name inputs
MaxShort == 2
\* longest padded name / id in the release-name inputs
MaxLong == 18

\* ------------------------------------------------------- program constants
\* cut(.., 50) in helm_release_name
MaxReleaseLen == 50
\* &commit_id[..7] in context
VersionLen == 7

\* ----------------------------------------------------------------- strings
KindPrefix == <<"e","x","t","e","r","n","a","l","-","s","e","r","v","i","c","e","-">>
Dash == <<"-">>
Colon == <<":">>
worker == <<"w","o","r","k","e","r">>
abc123 == <<"a","b","c","1","2","3">>
xyz789 == <<"x","y","z","7","8","9">>

\* crate::string::cut(str, max_length): the string, or its first max_length
\* characters when it is longer
cut(str, max_length) ==
  IF Len(str) <= max_length THEN str ELSE SubSeq(str, 1, max_length)

\* format!("external-service-{}-{}", self.name(), self.id())
release_format(name, id) == KindPrefix \o name \o Dash \o id

helm_release_name_noid(name, id) ==
  cut(KindPrefix \o name, MaxReleaseLen)

helm_release_name_uncut(name, id) ==
  cut(release_format(name, id), MaxReleaseLen + 3)

\* Helm::helm_release_name
helm_release_name(name, id) ==
  cut(release_format(name, id), MaxReleaseLen)

\* Image::name_with_tag
name_with_tag(image) == image.name \o Colon \o image.tag

engine_error_scope_swapped(s) == <<"ExternalService", s.name, s.id>>

\* Service::engine_error_scope
engine_error_scope(s) == <<"ExternalService", s.id, s.name>>

\* ------------------------------------------------------------------ inputs
NoUrl == [some |-> FALSE, url |-> <<>>]
SomeUrl == [some |-> TRUE, url |-> <<"r","e","g","/","j","o","b","@","1">>]

ImageLong == [name |-> <<"j","o","b">>, tag |-> <<"v","1">>,
              commit_id |-> <<"d","e","a","d","b","e","e","f","0","1","2","3">>,
              registry_url |-> SomeUrl]
ImageSeven == [name |-> <<"j","o","b">>, tag |-> <<"v","1">>,
               commit_id |-> <<"d","e","a","d","b","e","e">>,
               registry_url |-> NoUrl]
ImageShort == [name |-> <<"j","o","b">>, tag |-> <<"v","2">>,
               commit_id |-> <<"a","b","c">>,
               registry_url |-> NoUrl]

\* the ExternalService values the caller orchestrates: one service in two
\* versions and a second service of the same name
Services ==
  { [name |-> worker, id |-> abc123, image |-> ImageLong],
    [name |-> worker, id |-> abc123, image |-> ImageShort],
    [name |-> worker, id |-> xyz789, image |-> ImageSeven] }

NoService == [name |-> <<>>, id |-> <<>>, image |-> ImageSeven]

\* DeploymentTarget: both variants carry the same (cluster, environment)
Tags == {"ManagedServices", "SelfHosted"}
Namespace == "env1"

Workers == {"w1", "w2"}

ReleaseNames == { helm_release_name(s.name, s.id) : s \in Services }

Hooks == {"on_create", "on_create_check", "on_create_error",
          "on_pause", "on_pause_check", "on_pause_error",
          "on_delete", "on_delete_check", "on_delete_error"}

\* ------------------------------------------------------------------ results
NoResult == [kind |-> "None", cause |-> "-", scope |-> <<>>]
Ok == [kind |-> "Ok", cause |-> "-", scope |-> <<>>]
Panic == [kind |-> "Panic", cause |-> "-", scope |-> <<>>]
\* EngineError::new(cause, scope, ..)
EngineError(cause, scope) == [kind |-> "Err", cause |-> cause, scope |-> scope]

NoContext == [helm_app_version |-> <<>>, image_name_with_tag |-> <<>>]
NoRemoval == [is_error |-> FALSE, pre |-> "-", outcome |-> "-"]

VARIABLES
  pc,         \* pc[w]: position of worker w inside its current hook
  op,         \* op[w]: the hook worker w is running
  svc,        \* svc[w]: the service (self) of the hook
  tag,        \* tag[w]: variant of the DeploymentTarget argument
  ctx,        \* ctx[w]: the TeraContext built by context()
  workspace,  \* workspace[w]: state of the worker's workspace directory
  calls,      \* calls[w]: external invocations of the current hook, in order
  result,     \* result[w]: what the hook returned
  removal,    \* removal[w]: arguments and tool outcome of the hook's removal
  origin,     \* origin[w]: the error whose error hook worker w is running
  releases,   \* releases[r]: state of helm release r in the namespace
  nm, ident, rel, applied  \* release-name specification: inputs and output

vars == <<pc, op, svc, tag, ctx, workspace, calls, result, removal, origin,
          releases, nm, ident, rel, applied>>

wvars == <<pc, op, svc, tag, ctx, workspace, calls, result, removal, origin,
           releases>>
nvars == <<nm, ident, rel, applied>>

\* one external invocation: the tool, the namespace and resource it addresses
\* and the outcome it reported
Call(tool, target, outcome) ==
  [tool |-> tool, ns |-> Namespace, target |-> target, outcome |-> outcome]

Release(w) == helm_release_name(svc[w].name, svc[w].id)

Active(w) == pc[w] /= "idle"

\* §5 ordering guarantee: the caller starts no hook on a release while
\* another hook on that release is in progress or not yet acknowledged
Serialized(w, s) ==
  \A v \in Workers \ {w} :
    Active(v) => Release(v) /= helm_release_name(s.name, s.id)

Init ==
  /\ pc = [w \in Workers |-> "idle"]
  /\ op = [w \in Workers |-> "-"]
  /\ svc = [w \in Workers |-> NoService]
  /\ tag = [w \in Workers |-> "-"]
  /\ ctx = [w \in Workers |-> NoContext]
  /\ workspace = [w \in Workers |-> "empty"]
  /\ calls = [w \in Workers |-> <<>>]
  /\ result = [w \in Workers |-> NoResult]
  /\ removal = [w \in Workers |-> NoRemoval]
  /\ origin = [w \in Workers |-> NoResult]
  /\ releases = [r \in ReleaseNames |-> "absent"]
  /\ nm = <<>> /\ ident = <<>> /\ rel = <<>> /\ applied = FALSE

\* the caller invokes one hook of a service on a target
Invoke(w) ==
  /\ pc[w] = "idle"
  /\ \E h \in Hooks, s \in Services, t \in Tags :
       /\ Serialized(w, s)
       /\ op' = [op EXCEPT ![w] = h]
       /\ svc' = [svc EXCEPT ![w] = s]
       /\ tag' = [tag EXCEPT ![w] = t]
  /\ pc' = [pc EXCEPT ![w] = "called"]
  /\ ctx' = [ctx EXCEPT ![w] = NoContext]
  /\ workspace' = [workspace EXCEPT ![w] = "empty"]
  /\ calls' = [calls EXCEPT ![w] = <<>>]
  /\ result' = [result EXCEPT ![w] = NoResult]
  /\ removal' = [removal EXCEPT ![w] = NoRemoval]
  /\ origin' = [origin EXCEPT ![w] = NoResult]
  /\ UNCHANGED <<releases, nvars>>

\* a caller that does not serialize: on_create of any service at any time,
\* also while another on_create of the same service is in progress
InvokeCreateUnserialized(w) ==
  /\ pc[w] = "idle"
  /\ \E s \in Services, t \in Tags :
       /\ svc' = [svc EXCEPT ![w] = s]
       /\ tag' = [tag EXCEPT ![w] = t]
  /\ op' = [op EXCEPT ![w] = "on_create"]
  /\ pc' = [pc EXCEPT ![w] = "called"]
  /\ ctx' = [ctx EXCEPT ![w] = NoContext]
  /\ workspace' = [workspace EXCEPT ![w] = "empty"]
  /\ calls' = [calls EXCEPT ![w] = <<>>]
  /\ result' = [result EXCEPT ![w] = NoResult]
  /\ removal' = [removal EXCEPT ![w] = NoRemoval]
  /\ origin' = [origin EXCEPT ![w] = NoResult]
  /\ UNCHANGED <<releases, nvars>>

\* the error hook that matches a hook
ErrorHookOf(h) ==
  CASE h = "on_create" -> "on_create_error"
    [] h = "on_pause" -> "on_pause_error"
    [] h = "on_delete" -> "on_delete_error"

\* the caller, having got an error from on_create / on_pause / on_delete,
\* invokes the matching error hook on the same service and target
InvokeErrorHook(w) ==
  /\ pc[w] = "done"
  /\ op[w] \in {"on_create", "on_pause", "on_delete"}
  /\ result[w].kind = "Err"
  /\ origin' = [origin EXCEPT ![w] = result[w]]
  /\ op' = [op EXCEPT ![w] = ErrorHookOf(op[w])]
  /\ pc' = [pc EXCEPT ![w] = "called"]
  /\ ctx' = [ctx EXCEPT ![w] = NoContext]
  /\ calls' = [calls EXCEPT ![w] = <<>>]
  /\ result' = [result EXCEPT ![w] = NoResult]
  /\ removal' = [removal EXCEPT ![w] = NoRemoval]
  /\ UNCHANGED <<svc, tag, workspace, releases, nvars>>

ReportedHookError(w) == result[w]

\* the error the caller reports for the operation: the error that triggered
\* the error hook, whatever the hook itself returned
Reported(w) == IF origin[w].kind = "Err" THEN origin[w] ELSE result[w]

\* the failure of the error hook itself, reported next to the original error
HookFailure(w) ==
  IF origin[w].kind = "Err" /\ result[w].kind = "Err" THEN result[w] ELSE NoResult

\* the caller takes the hook's result; the worker is free again
Acknowledge(w) ==
  /\ pc[w] = "done"
  /\ pc' = [pc EXCEPT ![w] = "idle"]
  /\ op' = [op EXCEPT ![w] = "-"]
  /\ svc' = [svc EXCEPT ![w] = NoService]
  /\ tag' = [tag EXCEPT ![w] = "-"]
  /\ ctx' = [ctx EXCEPT ![w] = NoContext]
  /\ workspace' = [workspace EXCEPT ![w] = "empty"]
  /\ calls' = [calls EXCEPT ![w] = <<>>]
  /\ result' = [result EXCEPT ![w] = NoResult]
  /\ removal' = [removal EXCEPT ![w] = NoRemoval]
  /\ origin' = [origin EXCEPT ![w] = NoResult]
  /\ UNCHANGED <<releases, nvars>>

Return(w, r) ==
  /\ result' = [result EXCEPT ![w] = r]
  /\ pc' = [pc EXCEPT ![w] = "done"]

context_name_only(s) ==
  [helm_app_version |-> SubSeq(s.image.commit_id, 1, VersionLen),
   image_name_with_tag |->
     IF s.image.registry_url.some THEN s.image.registry_url.url
     ELSE s.image.name]

\* ExternalService::context: &commit_id[..7] panics on a shorter commit id
context(s) ==
  [helm_app_version |-> SubSeq(s.image.commit_id, 1, VersionLen),
   image_name_with_tag |->
     IF s.image.registry_url.some THEN s.image.registry_url.url
     ELSE name_with_tag(s.image)]

\* on_create, lines 162-168: resolve the target, build the context
on_create_context(w) ==
  /\ pc[w] = "called" /\ op[w] = "on_create"
  /\ IF Len(svc[w].image.commit_id) < VersionLen
     THEN /\ Return(w, Panic)
          /\ UNCHANGED ctx
     ELSE /\ ctx' = [ctx EXCEPT ![w] = context(svc[w])]
          /\ pc' = [pc EXCEPT ![w] = "render"]
          /\ UNCHANGED result
  /\ UNCHANGED <<op, svc, tag, origin, workspace, calls, removal, releases, nvars>>


\* outcomes of template::generate_and_copy_all_files_into_dir
RenderOutcomes == {"ok", "error"}
\* outcomes of Kubernetes::config_file_path
ConfigOutcomes == {"ok", "error"}
\* outcomes of cmd::helm::helm_exec_with_upgrade_history: Err(_), Ok(None),
\* Ok(Some(row)) with row.is_successfully_deployed() false / true
HelmOutcomes == {"error", "no_history", "failed", "deployed"}
\* outcomes of cmd::kubectl::kubectl_exec_is_job_ready_with_retry:
\* Ok(Some(true)), Ok(Some(false)), Ok(None), Err(_)
ReadyOutcomes == {"ready", "not_ready", "no_result", "error"}
\* outcomes of the helm removal inside delete_stateless_service
RemoveOutcomes == {"ok", "error"}

\* a step that does not return: on_create goes on to its next statement
Continue == NoResult

\* cast_simple_error_to_engine_error: a SimpleError becomes an Internal
\* EngineError of the given scope
cast_simple_error_to_engine_error(scope) == EngineError("Internal", scope)

\* Service::engine_error(cause, message)
engine_error(s, cause) == EngineError(cause, engine_error_scope(s))

\* state of the release after install-or-upgrade followed by the history
\* query, for each outcome the call reports
ReleaseAfterApply(before, outcome) ==
  CASE outcome = "deployed" -> {"deployed"}
    [] outcome = "failed" -> {"failed"}
    [] outcome = "no_history" -> {"absent"}
    [] OTHER -> {before, "failed", "deployed"}

render_result_ignored(s, o) == Continue

\* on_create, lines 171-179: cast_simple_error_to_engine_error(..)? on the
\* render result
render_result(s, o) ==
  IF o = "ok" THEN Continue
  ELSE cast_simple_error_to_engine_error(engine_error_scope(s))

helm_result_any_row(s, o) ==
  CASE o = "error" -> cast_simple_error_to_engine_error(engine_error_scope(s))
    [] o = "no_history" -> engine_error(s, "User")
    [] OTHER -> Continue

helm_result_internal(s, o) ==
  CASE o = "error" -> cast_simple_error_to_engine_error(engine_error_scope(s))
    [] o = "no_history" -> engine_error(s, "Internal")
    [] o = "failed" -> engine_error(s, "User")
    [] OTHER -> Continue

\* on_create, lines 187-211: the ? on the helm call, then
\* helm_history_row.is_none() || !row.is_successfully_deployed()
helm_result(s, o) ==
  CASE o = "error" -> cast_simple_error_to_engine_error(engine_error_scope(s))
    [] o = "no_history" \/ o /= "deployed" -> engine_error(s, "User")
    [] OTHER -> Continue

ready_result_any_answer(s, o) ==
  IF o \in {"ready", "not_ready"} THEN Ok ELSE engine_error(s, "Internal")

\* on_create, lines 214-238: Ok(Some(true)) => {} , _ => Err(Internal)
ready_result(s, o) ==
  IF o = "ready" THEN Ok ELSE engine_error(s, "Internal")

\* on_create, lines 170-179: render the chart into the workspace
on_create_render(w) ==
  /\ pc[w] = "render" /\ op[w] = "on_create"
  /\ \E o \in RenderOutcomes :
       /\ calls' = [calls EXCEPT ![w] = Append(@, Call("render", <<>>, o))]
       /\ workspace' \in
            {[workspace EXCEPT ![w] = d] :
               d \in IF o = "ok" THEN {"rendered"} ELSE {"empty", "partial"}}
       /\ IF render_result(svc[w], o) = Continue
          THEN /\ pc' = [pc EXCEPT ![w] = "config"]
               /\ UNCHANGED result
          ELSE Return(w, render_result(svc[w], o))
  /\ UNCHANGED <<op, svc, tag, origin, ctx, removal, releases, nvars>>

\* on_create, lines 183-184: release name and kubernetes.config_file_path()?;
\* the error is the cluster's own EngineError, passed on unchanged
on_create_config(w) ==
  /\ pc[w] = "config" /\ op[w] = "on_create"
  /\ \E o \in ConfigOutcomes :
       /\ calls' = [calls EXCEPT ![w] = Append(@, Call("config_file_path", <<>>, o))]
       /\ IF o = "ok"
          THEN /\ pc' = [pc EXCEPT ![w] = "helm"]
               /\ UNCHANGED result
          ELSE \E c \in {"User", "Internal"} :
                 Return(w, EngineError(c, <<"Kubernetes">>))
  /\ UNCHANGED <<op, svc, tag, origin, ctx, workspace, removal, releases, nvars>>

\* on_create, lines 186-211: helm upgrade with history, then the check of
\* the last deployment status
on_create_helm(w) ==
  /\ pc[w] = "helm" /\ op[w] = "on_create"
  /\ \E o \in HelmOutcomes :
       /\ calls' = [calls EXCEPT ![w] =
            Append(@, Call("helm_exec_with_upgrade_history", Release(w), o))]
       /\ \E after \in ReleaseAfterApply(releases[Release(w)], o) :
            releases' = [releases EXCEPT ![Release(w)] = after]
       /\ IF helm_result(svc[w], o) = Continue
          THEN /\ pc' = [pc EXCEPT ![w] = "ready"]
               /\ UNCHANGED result
          ELSE Return(w, helm_result(svc[w], o))
  /\ UNCHANGED <<op, svc, tag, origin, ctx, workspace, removal, nvars>>

\* a readiness step that polls again at the orchestrator level
on_create_ready_retry(w) ==
  /\ pc[w] = "ready" /\ op[w] = "on_create"
  /\ \E o \in ReadyOutcomes :
       /\ calls' = [calls EXCEPT ![w] =
            Append(@, Call("kubectl_exec_is_job_ready_with_retry", svc[w].name, o))]
       /\ IF o = "not_ready" /\ Len(calls[w]) < 5
          THEN UNCHANGED <<pc, result>>
          ELSE Return(w, ready_result(svc[w], o))
  /\ UNCHANGED <<op, svc, tag, origin, ctx, workspace, removal, releases, nvars>>

\* a readiness step that is skipped on a self-hosted target
on_create_ready_managed_only(w) ==
  /\ pc[w] = "ready" /\ op[w] = "on_create"
  /\ IF tag[w] = "SelfHosted"
     THEN /\ Return(w, Ok)
          /\ UNCHANGED calls
     ELSE \E o \in ReadyOutcomes :
            /\ calls' = [calls EXCEPT ![w] =
                 Append(@, Call("kubectl_exec_is_job_ready_with_retry", svc[w].name, o))]
            /\ Return(w, ready_result(svc[w], o))
  /\ UNCHANGED <<op, svc, tag, origin, ctx, workspace, removal, releases, nvars>>

\* a readiness step that uninstalls the release when the job is not ready
on_create_ready_rollback(w) ==
  /\ pc[w] = "ready" /\ op[w] = "on_create"
  /\ \E o \in ReadyOutcomes :
       /\ calls' = [calls EXCEPT ![w] =
            Append(@, Call("kubectl_exec_is_job_ready_with_retry", svc[w].name, o))]
       /\ releases' = IF o = "ready" THEN releases
                      ELSE [releases EXCEPT ![Release(w)] = "absent"]
       /\ Return(w, ready_result(svc[w], o))
  /\ UNCHANGED <<op, svc, tag, origin, ctx, workspace, removal, nvars>>

\* on_create, lines 213-238: the job readiness poll and the final result
on_create_ready(w) ==
  /\ pc[w] = "ready" /\ op[w] = "on_create"
  /\ \E o \in ReadyOutcomes :
       /\ calls' = [calls EXCEPT ![w] =
            Append(@, Call("kubectl_exec_is_job_ready_with_retry", svc[w].name, o))]
       /\ Return(w, ready_result(svc[w], o))
  /\ UNCHANGED <<op, svc, tag, origin, ctx, workspace, removal, releases, nvars>>

\* a check that queries the release and fails when there is none
on_check_probing(w) ==
  /\ pc[w] = "called"
  /\ op[w] \in {"on_create_check", "on_pause_check", "on_delete_check"}
  /\ calls' = [calls EXCEPT ![w] =
       Append(@, Call("helm_history", Release(w), releases[Release(w)]))]
  /\ Return(w, IF releases[Release(w)] = "absent"
               THEN engine_error(svc[w], "Internal") ELSE Ok)
  /\ UNCHANGED <<op, svc, tag, origin, ctx, workspace, removal, releases, nvars>>

\* on_create_check / on_pause_check / on_delete_check: Ok(())
on_check(w) ==
  /\ pc[w] = "called"
  /\ op[w] \in {"on_create_check", "on_pause_check", "on_delete_check"}
  /\ Return(w, Ok)
  /\ UNCHANGED <<op, svc, tag, origin, ctx, workspace, calls, removal, releases, nvars>>

\* the removal of the service's release with the outcome o of the helm tool
RemoveRelease(w, is_error, o) ==
  /\ calls' = [calls EXCEPT ![w] = Append(@, Call("helm_uninstall", Release(w), o))]
  /\ removal' = [removal EXCEPT ![w] =
       [is_error |-> is_error, pre |-> releases[Release(w)], outcome |-> o]]
  /\ IF o = "ok"
     THEN /\ releases' = [releases EXCEPT ![Release(w)] = "absent"]
          /\ Return(w, Ok)
     ELSE /\ UNCHANGED releases
          /\ Return(w, cast_simple_error_to_engine_error(engine_error_scope(svc[w])))
  /\ UNCHANGED <<op, svc, tag, origin, ctx, workspace, nvars>>

\* a removal that insists on finding the release
RemoveReleaseStrict(w, is_error, o) ==
  IF releases[Release(w)] = "absent"
  THEN /\ calls' = [calls EXCEPT ![w] = Append(@, Call("helm_uninstall", Release(w), o))]
       /\ removal' = [removal EXCEPT ![w] =
            [is_error |-> is_error, pre |-> "absent", outcome |-> o]]
       /\ Return(w, cast_simple_error_to_engine_error(engine_error_scope(svc[w])))
       /\ UNCHANGED <<op, svc, tag, origin, ctx, workspace, releases, nvars>>
  ELSE RemoveRelease(w, is_error, o)

\* a removal that only reports when is_error is set
RemoveReleaseReportOnly(w, is_error, o) ==
  /\ calls' = [calls EXCEPT ![w] = Append(@, Call("helm_uninstall", Release(w), o))]
  /\ removal' = [removal EXCEPT ![w] =
       [is_error |-> is_error, pre |-> releases[Release(w)], outcome |-> o]]
  /\ Return(w, IF o = "ok" THEN Ok
               ELSE cast_simple_error_to_engine_error(engine_error_scope(svc[w])))
  /\ UNCHANGED <<op, svc, tag, origin, ctx, workspace, releases, nvars>>

\* service::delete_stateless_service(target, service, is_error): removes the
\* service's release; removing an absent release succeeds; is_error only
\* changes what is reported
delete_stateless_service(w, is_error) ==
  \E o \in RemoveOutcomes : RemoveRelease(w, is_error, o)

\* service::deploy_stateless_service_error(target, service): the removal
\* with the is-error flag set
deploy_stateless_service_error(w) == delete_stateless_service(w, TRUE)

on_create_error_report_only(w) ==
  /\ pc[w] = "called" /\ op[w] = "on_create_error"
  /\ \E o \in RemoveOutcomes : RemoveReleaseReportOnly(w, TRUE, o)

on_create_error(w) ==
  /\ pc[w] = "called" /\ op[w] = "on_create_error"
  /\ deploy_stateless_service_error(w)

on_pause(w) ==
  /\ pc[w] = "called" /\ op[w] = "on_pause"
  /\ delete_stateless_service(w, FALSE)

on_pause_error_report_only(w) ==
  /\ pc[w] = "called" /\ op[w] = "on_pause_error"
  /\ \E o \in RemoveOutcomes : RemoveReleaseReportOnly(w, TRUE, o)

on_pause_error(w) ==
  /\ pc[w] = "called" /\ op[w] = "on_pause_error"
  /\ delete_stateless_service(w, TRUE)

on_delete_strict(w) ==
  /\ pc[w] = "called" /\ op[w] = "on_delete"
  /\ \E o \in RemoveOutcomes : RemoveReleaseStrict(w, FALSE, o)

on_delete(w) ==
  /\ pc[w] = "called" /\ op[w] = "on_delete"
  /\ delete_stateless_service(w, FALSE)

on_delete_error(w) ==
  /\ pc[w] = "called" /\ op[w] = "on_delete_error"
  /\ delete_stateless_service(w, TRUE)

Next ==
  \E w \in Workers :
    \/ Invoke(w)
    \/ InvokeErrorHook(w)
    \/ Acknowledge(w)
    \/ on_create_context(w)
    \/ on_create_render(w)
    \/ on_create_config(w)
    \/ on_create_helm(w)
    \/ on_create_ready(w)
    \/ on_check(w)
    \/ on_create_error(w)
    \/ on_pause(w)
    \/ on_pause_error(w)
    \/ on_delete(w)
    \/ on_delete_error(w)

Spec == Init /\ [][Next]_vars

\* on_create runs side by side under a caller that does not serialize them
NextCreates ==
  \E w \in Workers :
    \/ InvokeCreateUnserialized(w)
    \/ Acknowledge(w)
    \/ on_create_context(w)
    \/ on_create_render(w)
    \/ on_create_config(w)
    \/ on_create_helm(w)
    \/ on_create_ready(w)

SpecCreates == Init /\ [][NextCreates]_vars

\* ------------------------------------------- release-name specification
RECURSIVE Pad(_, _)
\* the string of k characters c
Pad(c, k) == IF k = 0 THEN <<>> ELSE <<c>> \o Pad(c, k - 1)

RECURSIVE Strings(_, _)
\* all strings over alphabet of length at most k
Strings(alphabet, k) ==
  IF k = 0 THEN {<<>>}
  ELSE LET shorter == Strings(alphabet, k - 1)
       IN shorter \cup {Append(x, c) : x \in shorter, c \in alphabet}

ShortStrings == Strings({"a", "-"}, MaxShort) \ {<<>>}
LongStrings == {Pad("a", k) : k \in (MaxLong - 4)..MaxLong}

\* service names and ids handed to helm_release_name
NameInputs == ShortStrings \cup LongStrings \cup {worker}
IdInputs == ShortStrings \cup LongStrings \cup {abc123}

InitName ==
  /\ pc = [w \in Workers |-> "idle"]
  /\ op = [w \in Workers |-> "-"]
  /\ svc = [w \in Workers |-> NoService]
  /\ tag = [w \in Workers |-> "-"]
  /\ ctx = [w \in Workers |-> NoContext]
  /\ workspace = [w \in Workers |-> "empty"]
  /\ calls = [w \in Workers |-> <<>>]
  /\ result = [w \in Workers |-> NoResult]
  /\ removal = [w \in Workers |-> NoRemoval]
  /\ origin = [w \in Workers |-> NoResult]
  /\ releases = [r \in ReleaseNames |-> "absent"]
  /\ nm \in NameInputs /\ ident \in IdInputs
  /\ rel = <<>> /\ applied = FALSE

\* the service named nm with id ident computes its release name
ApplyReleaseName ==
  /\ ~applied
  /\ rel' = helm_release_name(nm, ident)
  /\ applied' = TRUE
  /\ UNCHANGED <<nm, ident, wvars>>

NextName == ApplyReleaseName

SpecName == InitName /\ [][NextName]_vars

TypeOK ==
  /\ pc \in [Workers -> {"idle", "called", "render", "config", "helm", "ready", "done"}]
  /\ \A w \in Workers : result[w].kind \in {"None", "Ok", "Err", "Panic"}
  /\ releases \in [ReleaseNames -> {"absent", "deployed", "failed"}]


\* ------------------------------------------------------------------ claims
\* the outcome the given tool reported to worker w's hook, "-" if the hook
\* has not invoked it
Outcome(w, tool) ==
  IF \E i \in DOMAIN calls[w] : calls[w][i].tool = tool
  THEN calls[w][CHOOSE i \in DOMAIN calls[w] : calls[w][i].tool = tool].outcome
  ELSE "-"

Invoked(w, tool) == \E i \in DOMAIN calls[w] : calls[w][i].tool = tool

Returned(w, hook) == pc[w] = "done" /\ op[w] = hook

AllStepsSucceeded(w) ==
  /\ Outcome(w, "render") = "ok"
  /\ Outcome(w, "config_file_path") = "ok"
  /\ Outcome(w, "helm_exec_with_upgrade_history") = "deployed"
  /\ Outcome(w, "kubectl_exec_is_job_ready_with_retry") = "ready"

SomeStepFailed(w) ==
  \/ Outcome(w, "render") = "error"
  \/ Outcome(w, "config_file_path") = "error"
  \/ Outcome(w, "helm_exec_with_upgrade_history") \in {"error", "no_history", "failed"}
  \/ Outcome(w, "kubectl_exec_is_job_ready_with_retry") \in {"not_ready", "no_result", "error"}

\* C1: on_create returns Ok exactly when the render, the config path lookup,
\* the chart apply (history record present and successfully deployed) and
\* the readiness poll (ready = true) all succeeded; when any step it ran
\* failed it returns an error; when it returns Ok the release is present.
C1_CreateOkIffAllSteps ==
  \A w \in Workers :
    Returned(w, "on_create") =>
      /\ (result[w] = Ok) <=> AllStepsSucceeded(w)
      /\ SomeStepFailed(w) => result[w].kind = "Err"
      /\ result[w] = Ok => releases[Release(w)] /= "absent"

C1_Witness ==
  \E w \in Workers :
    /\ Returned(w, "on_create") /\ result[w] = Ok
    /\ AllStepsSucceeded(w) /\ releases[Release(w)] = "deployed"

\* C2: when the chart apply call returns without error, no history record
\* and a history record that is not successfully deployed are treated alike:
\* on_create returns the same User-caused EngineError and the readiness
\* poller is not invoked.
C2_NoHistoryAndFailedRowAreUser ==
  \A w \in Workers :
    (Returned(w, "on_create")
       /\ Outcome(w, "helm_exec_with_upgrade_history") \in {"no_history", "failed"}) =>
      /\ result[w] = EngineError("User", <<"ExternalService", svc[w].id, svc[w].name>>)
      /\ ~Invoked(w, "kubectl_exec_is_job_ready_with_retry")

C2_Witness ==
  \E w, v \in Workers :
    /\ Returned(w, "on_create") /\ Returned(v, "on_create")
    /\ Outcome(w, "helm_exec_with_upgrade_history") = "no_history"
    /\ Outcome(v, "helm_exec_with_upgrade_history") = "failed"
    /\ result[w].cause = "User" /\ result[v].cause = "User"

\* C3: after a successful chart apply only the readiness result ready = true
\* lets on_create succeed; not ready, no result and a query error each make
\* it return an Internal-caused EngineError.
C3_OnlyReadySucceeds ==
  \A w \in Workers :
    (Returned(w, "on_create") /\ Invoked(w, "kubectl_exec_is_job_ready_with_retry")) =>
      /\ Outcome(w, "helm_exec_with_upgrade_history") = "deployed"
      /\ IF Outcome(w, "kubectl_exec_is_job_ready_with_retry") = "ready"
         THEN result[w] = Ok
         ELSE result[w].kind = "Err" /\ result[w].cause = "Internal"

C3_Witness ==
  \E w, v \in Workers :
    /\ Returned(w, "on_create") /\ Returned(v, "on_create")
    /\ Outcome(w, "kubectl_exec_is_job_ready_with_retry") = "not_ready"
    /\ Outcome(v, "kubectl_exec_is_job_ready_with_retry") \in {"no_result", "error"}
    /\ result[w].cause = "Internal" /\ result[v].cause = "Internal"

\* C4: with a commit identifier shorter than 7 characters on_create returns
\* an Internal-caused EngineError before any external invocation, leaving
\* the workspace and the cluster unchanged.
C4_ShortCommitIsInternalError ==
  \A w \in Workers :
    (Returned(w, "on_create") /\ Len(svc[w].image.commit_id) < VersionLen) =>
      /\ result[w].kind = "Err" /\ result[w].cause = "Internal"
      /\ calls[w] = <<>>
      /\ workspace[w] = "empty"

\* C5: every hook ends in Ok or in an EngineError whose cause is User or
\* Internal; none ends in a panic.
C5_EveryEndIsTyped ==
  \A w \in Workers :
    pc[w] = "done" =>
      \/ result[w] = Ok
      \/ result[w].kind = "Err" /\ result[w].cause \in {"User", "Internal"}

\* C6: when the render step fails on_create returns an Internal-caused
\* EngineError and invokes neither the chart apply nor the readiness poll,
\* so the release is as it was.
C6_RenderFailureIsInternal ==
  \A w \in Workers :
    (op[w] = "on_create" /\ Outcome(w, "render") = "error") =>
      /\ pc[w] = "done"
      /\ result[w].kind = "Err" /\ result[w].cause = "Internal"
      /\ Len(calls[w]) = 1
      /\ ~Invoked(w, "helm_exec_with_upgrade_history")
      /\ ~Invoked(w, "kubectl_exec_is_job_ready_with_retry")

C6_Witness ==
  \E w \in Workers :
    /\ Returned(w, "on_create") /\ Outcome(w, "render") = "error"
    /\ result[w].cause = "Internal"

\* character i of "external-service-<nm>-<ident>"
ExpectedChar(i) ==
  IF i <= 17 THEN KindPrefix[i]
  ELSE IF i <= 17 + Len(nm) THEN nm[i - 17]
  ELSE IF i = 18 + Len(nm) THEN "-"
  ELSE ident[i - 18 - Len(nm)]

FullLen(name, id) == 18 + Len(name) + Len(id)

\* C7: the release name is "external-service-<name>-<id>" when that has at
\* most 50 characters and its first 50 characters otherwise, so it is never
\* longer than 50; "worker" / "abc123" gives "external-service-worker-abc123".
C7_ReleaseNameIsCutFormat ==
  applied =>
    /\ Len(rel) <= 50
    /\ Len(rel) = IF FullLen(nm, ident) <= 50 THEN FullLen(nm, ident) ELSE 50
    /\ \A i \in 1..Len(rel) : rel[i] = ExpectedChar(i)
    /\ (nm = worker /\ ident = abc123) =>
         rel = <<"e","x","t","e","r","n","a","l","-","s","e","r","v","i","c","e","-",
                 "w","o","r","k","e","r","-","a","b","c","1","2","3">>

C7_Witness ==
  /\ applied /\ FullLen(nm, ident) > 50 /\ Len(rel) = 50
  /\ rel[50] = "a"

Fits(name, id) == FullLen(name, id) <= 50

HasDash(str) == \E i \in DOMAIN str : str[i] = "-"

\* C8 as stated: two services with distinct (name, id) whose untruncated
\* release names fit in 50 characters get distinct release names.
C8_DistinctPairsDistinctNames ==
  (applied /\ Fits(nm, ident)) =>
    \A n2 \in NameInputs, i2 \in IdInputs :
      (<<n2, i2>> /= <<nm, ident>> /\ Fits(n2, i2)) =>
        helm_release_name(n2, i2) /= rel

\* C8 amended: two services with distinct (name, id) whose ids contain no
\* "-" and whose untruncated release names fit in 50 characters get distinct
\* release names.
C8_DistinctNamesWhenIdsHaveNoDash ==
  (applied /\ Fits(nm, ident) /\ ~HasDash(ident)) =>
    \A n2 \in NameInputs, i2 \in IdInputs :
      (<<n2, i2>> /= <<nm, ident>> /\ Fits(n2, i2) /\ ~HasDash(i2)) =>
        helm_release_name(n2, i2) /= rel

C8_Witness ==
  /\ applied /\ Fits(nm, ident) /\ ~HasDash(ident) /\ HasDash(nm)
  /\ Len(ident) > 0

RemovalHooks == {"on_pause", "on_delete", "on_pause_error", "on_delete_error"}

\* C9: removal is idempotent: on_pause / on_delete and their error hooks on
\* an absent release do not fail because it is absent; they give the result
\* and the final cluster state (release absent) of a successful delete of a
\* present release.
C9_DeleteIdempotent ==
  \A w \in Workers :
    (pc[w] = "done" /\ op[w] \in RemovalHooks) =>
      /\ removal[w].outcome = "ok" =>
           result[w] = Ok /\ releases[Release(w)] = "absent"
      /\ result[w].kind = "Err" => removal[w].outcome = "error"

C9_Witness ==
  \E w, v \in Workers :
    /\ Returned(w, "on_delete") /\ removal[w].pre = "absent"
    /\ Returned(v, "on_delete") /\ removal[v].pre = "deployed"
    /\ result[w] = Ok /\ result[v] = Ok
    /\ releases[Release(w)] = "absent" /\ releases[Release(v)] = "absent"

\* C10: the four removal hooks run the same removal on the hook's own
\* release, on_pause / on_delete with is_error = false and the error hooks
\* with is_error = true; for equal cluster state and tool outcome any two of
\* them give the same result class and the same resulting release state.
C10_RemovalHooksEquivalent ==
  \A w, v \in Workers :
    (pc[w] = "done" /\ op[w] \in RemovalHooks) =>
      /\ removal[w].is_error = (op[w] \in {"on_pause_error", "on_delete_error"})
      /\ Len(calls[w]) = 1
      /\ calls[w][1].tool = "helm_uninstall"
      /\ calls[w][1].target = helm_release_name(svc[w].name, svc[w].id)
      /\ (/\ pc[v] = "done" /\ op[v] \in RemovalHooks
          /\ removal[v].pre = removal[w].pre
          /\ removal[v].outcome = removal[w].outcome) =>
           /\ result[v].kind = result[w].kind
           /\ result[v].cause = result[w].cause
           /\ releases[Release(v)] = releases[Release(w)]

C10_Witness ==
  \E w, v \in Workers :
    /\ Returned(w, "on_pause") /\ Returned(v, "on_delete_error")
    /\ ~removal[w].is_error /\ removal[v].is_error
    /\ removal[w].pre = "deployed" /\ removal[v].pre = "deployed"
    /\ removal[w].outcome = "ok" /\ removal[v].outcome = "ok"
    /\ releases[Release(w)] = "absent" /\ releases[Release(v)] = "absent"


\* C11: once on_create has failed, at whichever step, and on_create_error
\* has then returned Ok, no release of the service remains; the teardown is
\* the removal of the service's release with the is-error flag set.
C11_CreateErrorTearsDown ==
  \A w \in Workers :
    (Returned(w, "on_create_error") /\ origin[w].kind = "Err" /\ result[w] = Ok) =>
      /\ releases[Release(w)] = "absent"
      /\ removal[w].is_error
      /\ calls[w] = <<Call("helm_uninstall", Release(w), "ok")>>

C11_Witness ==
  \E w, v \in Workers :
    /\ Returned(w, "on_create_error") /\ Returned(v, "on_create_error")
    /\ origin[w].kind = "Err" /\ origin[v].kind = "Err"
    /\ result[w] = Ok /\ result[v] = Ok
    /\ removal[w].pre = "absent" /\ removal[v].pre \in {"deployed", "failed"}
    /\ releases[Release(w)] = "absent" /\ releases[Release(v)] = "absent"

\* the cluster resources worker w's on_create has addressed: the release it
\* applies and the job it polls, each in its namespace
Resources(w) ==
  { <<calls[w][i].tool, calls[w][i].ns, calls[w][i].target>> :
      i \in { j \in DOMAIN calls[w] :
                calls[w][j].tool \in {"helm_exec_with_upgrade_history",
                                      "kubectl_exec_is_job_ready_with_retry"} } }

\* C12: two distinct services (differing in name or id) of one environment,
\* created concurrently, address disjoint cluster resources.
C12_DistinctServicesDisjointResources ==
  \A w, v \in Workers :
    (/\ w /= v
     /\ op[w] = "on_create" /\ op[v] = "on_create"
     /\ <<svc[w].name, svc[w].id>> /= <<svc[v].name, svc[v].id>>) =>
      Resources(w) \cap Resources(v) = {}

\* C13: under a caller that serializes the hooks of one release, every
\* on_create that returns Ok does so with the service's release installed
\* and successfully deployed.
C13_SerializedCreateOkIsDeployed ==
  \A w \in Workers :
    (Returned(w, "on_create") /\ result[w] = Ok) =>
      /\ releases[Release(w)] = "deployed"
      /\ \A v \in Workers \ {w} : Active(v) => Release(v) /= Release(w)

\* the same guarantee without the caller's serialization: it does not hold
\* under SpecCreates, where two on_create of one service overlap
CreateOkIsDeployed ==
  \A w \in Workers :
    (Returned(w, "on_create") /\ result[w] = Ok) =>
      releases[Release(w)] = "deployed"

C13_Witness ==
  \E w, v \in Workers :
    /\ Returned(w, "on_create") /\ result[w] = Ok
    /\ releases[Release(w)] = "deployed"
    /\ Returned(v, "on_delete") /\ result[v] = Ok /\ removal[v].pre = "deployed"

ErrorHooks == {"on_create_error", "on_pause_error", "on_delete_error"}

C15_EveryCreateErrorHasServiceScope ==
  \A w \in Workers :
    (Returned(w, "on_create") /\ result[w].kind = "Err") =>
      result[w].scope = <<"ExternalService", svc[w].id, svc[w].name>>

\* the errors on_create composes itself (failed render, chart apply, history
\* check, readiness poll) carry the scope ExternalService(id, name); the
\* error of a failed cluster config path lookup is the cluster's own, passed
\* on as it is.
C15_CreateErrorsOfOwnStepsHaveServiceScope ==
  \A w \in Workers :
    (Returned(w, "on_create") /\ result[w].kind = "Err") =>
      IF Outcome(w, "config_file_path") = "error"
      THEN result[w].scope = <<"Kubernetes">>
      ELSE result[w].scope = <<"ExternalService", svc[w].id, svc[w].name>>

C15_Witness ==
  \E w, v \in Workers :
    /\ Returned(w, "on_create") /\ Returned(v, "on_create")
    /\ Outcome(w, "render") = "error"
    /\ Outcome(v, "kubectl_exec_is_job_ready_with_retry") = "error"
    /\ result[w].scope = <<"ExternalService", svc[w].id, svc[w].name>>
    /\ result[v].scope = <<"ExternalService", svc[v].id, svc[v].name>>
    /\ svc[w].id /= svc[v].id

CheckHooks == {"on_create_check", "on_pause_check", "on_delete_check"}

\* C16: the three check hooks return Ok for every service and cluster state,
\* invoke nothing external and change no state.
C16_ChecksAreOkAndPure ==
  [][\A w \in Workers :
       (pc[w] = "called" /\ op[w] \in CheckHooks /\ pc'[w] /= pc[w]) =>
         /\ pc'[w] = "done" /\ result'[w] = Ok
         /\ calls'[w] = <<>>
         /\ releases' = releases /\ workspace' = workspace /\ ctx' = ctx]_vars

C16_Witness ==
  \E w, v \in Workers :
    /\ Returned(w, "on_create_check") /\ result[w] = Ok /\ calls[w] = <<>>
    /\ releases[Release(w)] = "absent"
    /\ Returned(v, "on_delete_check") /\ result[v] = Ok /\ calls[v] = <<>>
    /\ releases[Release(v)] = "deployed"

StepOrder == <<"render", "config_file_path", "helm_exec_with_upgrade_history",
               "kubectl_exec_is_job_ready_with_retry">>
StepSuccess == <<"ok", "ok", "deployed", "ready">>

\* C17: within one on_create the external steps occur in the order render,
\* config path lookup, chart apply with history, readiness poll; each is
\* invoked at most once and a later one only after every earlier succeeded.
C17_StepsInOrderOnce ==
  \A w \in Workers :
    op[w] = "on_create" =>
      /\ Len(calls[w]) <= 4
      /\ \A i \in DOMAIN calls[w] :
           /\ calls[w][i].tool = StepOrder[i]
           /\ i < Len(calls[w]) => calls[w][i].outcome = StepSuccess[i]

C17_Witness ==
  \E w \in Workers :
    /\ Returned(w, "on_create") /\ Len(calls[w]) = 4
    /\ calls[w][4].outcome = "not_ready"
    /\ result[w].kind = "Err"

\* the two on_create runs got the same outcome from every tool both invoked
SameOutcomes(w, v) ==
  \A i \in DOMAIN calls[w] \cap DOMAIN calls[v] :
    calls[w][i].outcome = calls[v][i].outcome

\* C18: target resolution never fails, and on_create of one service against
\* ManagedServices and against SelfHosted, given the same tool outcomes,
\* makes the same external invocations with the same arguments and returns
\* the same result.
C18_TagDoesNotChangeCreate ==
  \A w, v \in Workers :
    /\ (Returned(w, "on_create") /\ calls[w] = <<>>) =>
         (result[w] = Panic /\ Len(svc[w].image.commit_id) < VersionLen)
    /\ (/\ Returned(w, "on_create") /\ Returned(v, "on_create")
        /\ svc[w] = svc[v] /\ tag[w] /= tag[v]
        /\ SameOutcomes(w, v)) =>
         /\ calls[w] = calls[v]
         /\ result[w].kind = result[v].kind
         /\ result[w].scope = result[v].scope
         /\ Outcome(w, "config_file_path") /= "error" => result[w] = result[v]

C18_Witness ==
  \E w, v \in Workers :
    /\ Returned(w, "on_create") /\ Returned(v, "on_create")
    /\ svc[w] = svc[v]
    /\ tag[w] = "ManagedServices" /\ tag[v] = "SelfHosted"
    /\ Len(calls[w]) = 4 /\ calls[w] = calls[v]
    /\ result[w] = Ok /\ result[v] = Ok

\* "<imageName>:<tag>" of an image, character by character
IsNameColonTag(str, image) ==
  /\ Len(str) = Len(image.name) + 1 + Len(image.tag)
  /\ \A i \in 1..Len(str) :
       str[i] = IF i <= Len(image.name) THEN image.name[i]
                ELSE IF i = Len(image.name) + 1 THEN ":"
                ELSE image.tag[i - Len(image.name) - 1]

\* C19: the image reference in the context is the registry URL verbatim
\* when there is one and "<imageName>:<tag>" when there is none; the absent
\* case is no error: on_create goes on to render and chart apply.
C19_ImageReference ==
  \A w \in Workers :
    op[w] = "on_create" =>
      /\ (pc[w] /= "called" /\ result[w] /= Panic) =>
           IF svc[w].image.registry_url.some
           THEN ctx[w].image_name_with_tag = svc[w].image.registry_url.url
           ELSE IsNameColonTag(ctx[w].image_name_with_tag, svc[w].image)
      /\ (pc[w] = "done" /\ calls[w] = <<>>) =>
           Len(svc[w].image.commit_id) < VersionLen

C19_Witness ==
  \E w \in Workers :
    /\ op[w] = "on_create" /\ ~svc[w].image.registry_url.some
    /\ ctx[w].image_name_with_tag = <<"j","o","b",":","v","1">>
    /\ Invoked(w, "render")
    /\ Invoked(w, "helm_exec_with_upgrade_history")

AppliedAndPresent(w) ==
  Outcome(w, "helm_exec_with_upgrade_history") \in {"failed", "deployed"}

\* C20: on_create does not roll back: when the chart apply has installed or
\* upgraded the release and the history check or the readiness poll then
\* fails, on_create returns its error with the release still present; after
\* its chart apply on_create leaves the release as it is, and a present
\* release becomes absent only in a step of on_create_error, on_pause,
\* on_delete or their error hooks (or in a later chart apply that finds no
\* history of the release).
C20_NoRollback ==
  /\ [](\A w \in Workers :
          (Returned(w, "on_create") /\ result[w].kind = "Err" /\ AppliedAndPresent(w)) =>
            releases[Release(w)] /= "absent")
  /\ [][\A w \in Workers :
          (op[w] = "on_create" /\ Invoked(w, "helm_exec_with_upgrade_history")) =>
            releases'[Release(w)] = releases[Release(w)]]_vars
  /\ [][\A r \in ReleaseNames :
          (releases[r] /= "absent" /\ releases'[r] = "absent") =>
            \E w \in Workers :
              /\ Release(w) = r /\ pc'[w] = "done"
              /\ \/ pc[w] = "called" /\ op[w] \in RemovalHooks \cup {"on_create_error"}
                 \/ pc[w] = "helm" /\ op[w] = "on_create"]_vars

C20_Witness ==
  \E w, v \in Workers :
    /\ Returned(w, "on_create") /\ Returned(v, "on_create")
    /\ Outcome(w, "kubectl_exec_is_job_ready_with_retry") = "not_ready"
    /\ Outcome(v, "helm_exec_with_upgrade_history") = "failed"
    /\ result[w].kind = "Err" /\ result[v].kind = "Err"
    /\ releases[Release(w)] = "deployed" /\ releases[Release(v)] = "failed"

====
